---------------------------- MODULE Spec2Model ----------------------------
(***************************************************************************)
(* Model of the Arc'teryx outlet tracker (a Cloudflare Worker).            *)
(*                                                                         *)
(*   inventory.ts      compareInventory, mergeInventory, hasChanges, and   *)
(*                     the KV snapshot get/put                             *)
(*   index.ts          runMonitor, sendThrottledAlert, recordSuccess, the  *)
(*                     cron handler and the POST /trigger handler          *)
(*   notifications.ts  sendNotification, sendAlertEmail                    *)
(*   scraper.ts        sizeMatches, and the size filter and the price      *)
(*                     fields of extractProducts                           *)
(*                                                                         *)
(* A Product is the record [id, price, firstSeen]: the fields the diff and *)
(* the merge read.  The other fields of a Product (name, url, sizes, ...)  *)
(* are copied through by both and read by neither.  A timestamp is the     *)
(* number of milliseconds since the epoch; toISOString() and new Date(s)   *)
(* convert it to a string and back without loss, so the string is the      *)
(* number here.  NoTime is the absent or empty timestamp string, the only  *)
(* falsy value such a string can hold.                                     *)
(***************************************************************************)
EXTENDS Integers, Sequences, FiniteSets, TLC

(***************************************************************************)
(* Bounds of the model.                                                    *)
(***************************************************************************)
\* longest stored snapshot drawn as an input of the pure functions
MaxStored == 2
\* longest scraped product list drawn as an input of the pure functions
MaxCurrent == 2
\* monitor runs started in one behaviour
MaxRuns == 2
\* ticks of the clock in one behaviour
MaxTicks == 2
\* longest size label drawn as an input of sizeMatches
MaxLabelLen == 3
\* most sizes in stock for one product
MaxSizes == 2
\* most prices found in the text of one tile
MaxPrices == 3

(***************************************************************************)
(* Values.                                                                 *)
(***************************************************************************)
\* the absent / empty timestamp string
NoTime == 0
\* index.ts:10, 6 hours
ALERT_THROTTLE_MS == 6 * 60 * 60 * 1000
\* the granularity of modelled time: half the throttle interval
TickMs == ALERT_THROTTLE_MS \div 2
\* the mark of an id that some run did not scrape
Missed == -1
\* a snapshot that does not exist: kv.get returns null
Null == [isNull |-> TRUE]

ProductIds == {"a", "b"}
Prices == {80, 100}
\* types.ts Product, as a stored snapshot can hold it: first seen at an
\* earlier time, or with no firstSeen
Product == [id : ProductIds, price : Prices, firstSeen : {NoTime, TickMs}]
\* types.ts Product, as the scraper returns it: firstSeen is the time of the
\* scrape (scraper.ts:164)
ScrapedProduct == [id : ProductIds, price : Prices, firstSeen : {2 * TickMs}]

\* the sequences over S of length at most n
SeqsUpTo(S, n) == UNION {[1..k -> S] : k \in 0..n}

(***************************************************************************)
(* inventory.ts: the pure functions.                                       *)
(***************************************************************************)
\* scrapeResults.flatMap((r) => r.products)
RECURSIVE FlatProducts(_)
FlatProducts(scrapeResults) ==
    IF scrapeResults = <<>> THEN <<>>
    ELSE Head(scrapeResults).products \o FlatProducts(Tail(scrapeResults))

\* stored?.products || []
ProductsOf(stored) == IF stored = Null THEN <<>> ELSE stored.products

\* MapById with a fault: the first entry with an id is kept
RECURSIVE MapByIdFirstWins(_)
MapByIdFirstWins(products) ==
    IF products = <<>> THEN [k \in {} |-> Null]
    ELSE LET n == Len(products)
             m == MapByIdFirstWins(SubSeq(products, 1, n - 1))
             p == products[n]
         IN  [k \in DOMAIN m \cup {p.id} |-> IF k \in DOMAIN m THEN m[k] ELSE p]

\* new Map(products.map((p) => [p.id, p])): a later entry with the same id
\* replaces an earlier one
RECURSIVE MapById(_)
MapById(products) ==
    IF products = <<>> THEN [k \in {} |-> Null]
    ELSE LET n == Len(products)
             m == MapById(SubSeq(products, 1, n - 1))
             p == products[n]
         IN  [k \in DOMAIN m \cup {p.id} |-> IF k = p.id THEN p ELSE m[k]]

\* IsPriceDrop with a fault: an unchanged price counts as a drop
IsPriceDropOrEqual(product, existing) == product.price <= existing.price

\* product.price < existing.price
IsPriceDrop(product, existing) == product.price < existing.price

\* the first loop of compareInventory, over currentProducts[i..]
RECURSIVE CompareLoop(_, _, _, _, _)
CompareLoop(currentProducts, storedMap, i, newProducts, priceDrops) ==
    IF i > Len(currentProducts)
    THEN [newProducts |-> newProducts, priceDrops |-> priceDrops]
    ELSE LET product == currentProducts[i]
         IN  IF product.id \notin DOMAIN storedMap
             THEN CompareLoop(currentProducts, storedMap, i + 1,
                              Append(newProducts, product), priceDrops)
             ELSE IF IsPriceDrop(product, storedMap[product.id])
             THEN CompareLoop(currentProducts, storedMap, i + 1, newProducts,
                              Append(priceDrops,
                                     [product |-> product,
                                      previousPrice |-> storedMap[product.id].price]))
             ELSE CompareLoop(currentProducts, storedMap, i + 1,
                              newProducts, priceDrops)

\* RemovedLoop with a fault: the loop ends at the first product still present
RECURSIVE RemovedLoopBreaks(_, _, _, _)
RemovedLoopBreaks(storedProducts, currentMap, i, removedProducts) ==
    IF i > Len(storedProducts) THEN removedProducts
    ELSE IF storedProducts[i].id \notin DOMAIN currentMap
    THEN RemovedLoopBreaks(storedProducts, currentMap, i + 1,
                           Append(removedProducts, storedProducts[i]))
    ELSE removedProducts

\* the second loop of compareInventory, over storedProducts[i..]
RECURSIVE RemovedLoop(_, _, _, _)
RemovedLoop(storedProducts, currentMap, i, removedProducts) ==
    IF i > Len(storedProducts) THEN removedProducts
    ELSE IF storedProducts[i].id \notin DOMAIN currentMap
    THEN RemovedLoop(storedProducts, currentMap, i + 1,
                     Append(removedProducts, storedProducts[i]))
    ELSE RemovedLoop(storedProducts, currentMap, i + 1, removedProducts)

compareInventory(stored, scrapeResults) ==
    LET currentProducts == FlatProducts(scrapeResults)
        storedProducts == ProductsOf(stored)
        storedMap == MapById(storedProducts)
        currentMap == MapById(currentProducts)
        found == CompareLoop(currentProducts, storedMap, 1, <<>>, <<>>)
    IN  [newProducts |-> found.newProducts,
         priceDrops |-> found.priceDrops,
         removedProducts |-> RemovedLoop(storedProducts, currentMap, 1, <<>>)]

\* MergedFirstSeen with a fault: the scraped firstSeen is kept
MergedFirstSeenRecomputed(storedMap, product) == product.firstSeen

\* hasChanges with a fault: a removed product counts as a change
hasChangesOrRemovals(changes) ==
    \/ Len(changes.newProducts) > 0
    \/ Len(changes.priceDrops) > 0
    \/ Len(changes.removedProducts) > 0

\* existing?.firstSeen || product.firstSeen
MergedFirstSeen(storedMap, product) ==
    IF product.id \in DOMAIN storedMap /\ storedMap[product.id].firstSeen # NoTime
    THEN storedMap[product.id].firstSeen
    ELSE product.firstSeen

mergeInventory(stored, scrapeResults, now) ==
    LET currentProducts == FlatProducts(scrapeResults)
        storedMap == MapById(ProductsOf(stored))
    IN  [lastUpdated |-> now,
         products |-> [i \in 1..Len(currentProducts) |->
                         [currentProducts[i] EXCEPT
                            !.firstSeen = MergedFirstSeen(storedMap, currentProducts[i])]]]

hasChanges(changes) ==
    Len(changes.newProducts) > 0 \/ Len(changes.priceDrops) > 0

(***************************************************************************)
(* scraper.ts: the pure steps.  A string is the sequence of its            *)
(* characters.                                                             *)
(***************************************************************************)
\* the characters of the size labels of the model
Chars == {"L", "l", "M", "R", "r", "-", " "}

\* String.prototype.toUpperCase, one character at a time
UpperChar(c) == CASE c = "l" -> "L" [] c = "r" -> "R" [] OTHER -> c

\* Normalize with a fault: the case of the letters is kept
NormalizeKeepsCase(str) ==
    LET Kept(c) == c \notin {"-", " "}
    IN  SelectSeq(str, Kept)

\* str.toUpperCase().replace(/[- ]/g, '')
Normalize(str) ==
    LET Kept(c) == c \notin {"-", " "}
    IN  SelectSeq([i \in DOMAIN str |-> UpperChar(str[i])], Kept)

\* String.prototype.startsWith
StartsWith(str, prefix) ==
    Len(prefix) <= Len(str) /\ SubSeq(str, 1, Len(prefix)) = prefix

\* scraper.ts:69-80
sizeMatches(label, sizeFilter) ==
    LET normalized == Normalize(label)
        normalizedFilter == Normalize(sizeFilter)
    IN  IF normalized = normalizedFilter THEN TRUE
        ELSE IF StartsWith(normalized, normalizedFilter) THEN TRUE
        ELSE FALSE

\* scraper.ts:182-190: the sizes in stock of each product of the page; a
\* lookup that failed (null) leaves the sizes empty
WithSizes(products, lookups) ==
    [i \in DOMAIN products |->
       IF lookups[i] = Null THEN products[i]
       ELSE [products[i] EXCEPT !.sizes = lookups[i].sizes]]

\* the predicate of products.filter (scraper.ts:195-205)
KeepsProduct(p, sizeFilter) ==
    IF Len(p.sizes) = 0 THEN TRUE
    ELSE \E i \in DOMAIN p.sizes : sizeMatches(p.sizes[i], sizeFilter)

\* scraper.ts:171-210: extractProducts, from the data of the page on
extractProducts(page, lookups, sizeFilter) ==
    IF ~page.buildId THEN page.products
    ELSE LET products == WithSizes(page.products, lookups)
             Keep(p) == KeepsProduct(p, sizeFilter)
         IN  IF sizeFilter # <<>> THEN SelectSeq(products, Keep) ELSE products

\* Array.prototype.sort((a, b) => b - a): value inserted into a list sorted
\* from high to low
RECURSIVE InsertDesc(_, _)
InsertDesc(value, sorted) ==
    IF sorted = <<>> THEN <<value>>
    ELSE IF value > Head(sorted) THEN <<value>> \o sorted
    ELSE <<Head(sorted)>> \o InsertDesc(value, Tail(sorted))

RECURSIVE SortDesc(_)
SortDesc(values) ==
    IF values = <<>> THEN <<>>
    ELSE InsertDesc(values[Len(values)], SortDesc(SubSeq(values, 1, Len(values) - 1)))

\* prices[i] || fallback: an absent entry and the value 0 are both falsy
OrElse(prices, i, fallback) ==
    IF i \in DOMAIN prices /\ prices[i] # 0 THEN prices[i] ELSE fallback

\* Math.round(((originalPrice - salePrice) / originalPrice) * 100), for
\* originalPrice > 0: the nearest integer, a half rounded up
RoundedPercent(originalPrice, salePrice) ==
    (200 * (originalPrice - salePrice) + originalPrice) \div (2 * originalPrice)

\* scraper.ts:145-157: the price fields of a product
PriceFields(values) ==
    LET prices == SortDesc(values)
        originalPrice == OrElse(prices, 1, 0)
        salePrice == OrElse(prices, 2, OrElse(prices, 1, 0))
    IN  [price |-> salePrice,
         originalPrice |-> originalPrice,
         discount |-> IF originalPrice > salePrice
                      THEN RoundedPercent(originalPrice, salePrice)
                      ELSE 0]

(***************************************************************************)
(* State.                                                                  *)
(*                                                                         *)
(* The pure functions are exercised on drawn inputs: inStored is the       *)
(* stored snapshot (or Null), inCurrent the scraped products in scrape     *)
(* order, outChanges and outMerged what compareInventory and               *)
(* mergeInventory return for them.                                         *)
(***************************************************************************)
VARIABLES inStored, inCurrent, outChanges, outMerged, phase

(***************************************************************************)
(* The worker: sizeFilter is whether env.SIZE_FILTER is set; clock is      *)
(* Date.now(); kvInventory, kvLastAlert and kvLastSuccess are the values   *)
(* of the three keys of INVENTORY_KV; alertEmails holds the times of the   *)
(* last two alert emails Resend accepted, in the order sent; run[r] is the *)
(* state of handler invocation r: where it stands (pc), its local          *)
(* variables, and a record of what it has done; started counts the runs    *)
(* started; firstPersisted[id] is the firstSeen with which id was first    *)
(* written to the snapshot key (NoTime: never written).                    *)
(***************************************************************************)
VARIABLES sizeFilter, clock, kvInventory, kvLastAlert, kvLastSuccess,
          alertEmails, run, started, firstPersisted

(***************************************************************************)
(* The history of the notifications: notifiedAsNew[id] is the number of    *)
(* runs whose notification email, accepted by Resend, listed id as a new   *)
(* product (2 stands for two or more), for as long as every run has        *)
(* scraped id; it is Missed from the first run on that did not scrape id.  *)
(***************************************************************************)
VARIABLES notifiedAsNew

(***************************************************************************)
(* The scraper's pure steps on drawn inputs: sizeLabel and filter are the  *)
(* arguments of sizeMatches and matched its result; filter is also the     *)
(* sizeFilter argument of extractProducts (the empty string: no filter),   *)
(* pageData what page.evaluate returned, sizeData what getProductSizeData  *)
(* returns for each product of the page, and filteredProducts what         *)
(* extractProducts returns; priceMatches holds the values of the price     *)
(* strings of a tile in text order, and tilePrices the price fields        *)
(* computed from them; scraperPhase tells which of them is exercised.      *)
(***************************************************************************)
VARIABLES sizeLabel, filter, matched, pageData, sizeData, filteredProducts,
          priceMatches, tilePrices, scraperPhase

pureVars == <<inStored, inCurrent, outChanges, outMerged, phase>>
scraperVars == <<sizeLabel, filter, matched, pageData, sizeData, filteredProducts,
                 priceMatches, tilePrices, scraperPhase>>
kvVars == <<kvInventory, kvLastAlert, kvLastSuccess>>
workerVars == <<sizeFilter, clock, kvInventory, kvLastAlert, kvLastSuccess,
                alertEmails, run, started, firstPersisted, notifiedAsNew>>
vars == <<pureVars, scraperVars, workerVars>>

\* the entries of a list, and the ids of a list of products
ToSet(seq) == {seq[i] : i \in DOMAIN seq}
IdsOf(products) == {products[i].id : i \in DOMAIN products}

\* types.ts InventoryChanges, with nothing in it
NoChanges == [newProducts |-> <<>>, priceDrops |-> <<>>, removedProducts |-> <<>>]

\* types.ts ScrapeResult[]: the scraped products as the results of two
\* categories, the first holding the first k products
SplitResults(products, k) ==
    << [category |-> "c1", products |-> SubSeq(products, 1, k)],
       [category |-> "c2", products |-> SubSeq(products, k + 1, Len(products))] >>

\* types.ts InventoryState | null, as kv.get can return it
StoredInputs ==
    {Null} \cup {[lastUpdated |-> TickMs, products |-> ps] :
                    ps \in SeqsUpTo(Product, MaxStored)}

\* the handler invocations: the cron trigger and POST /trigger
Runs == {"scheduled", "trigger"}

\* a handler invocation that has not started
IdleRun ==
    [pc |-> "idle", scrapeResults |-> <<>>, stored |-> Null, changes |-> NoChanges,
     result |-> "none", alertReason |-> "none", lastAlert |-> NoTime,
     notify |-> "none", alert |-> "none", storeThrew |-> FALSE,
     markerThrew |-> FALSE, didRead |-> FALSE,
     didSave |-> FALSE, didRecord |-> FALSE,
     snapAtStart |-> Null, successAtStart |-> NoTime]

\* the snapshot a first successful run leaves: product "a", first seen then
EarlierSnapshot ==
    [lastUpdated |-> TickMs,
     products |-> <<[id |-> "a", price |-> 100, firstSeen |-> TickMs]>>]

\* the first firstSeen written for each id of a snapshot
FirstWritten(persisted, snapshot) ==
    [id \in ProductIds |->
       IF persisted[id] # NoTime \/ id \notin {snapshot.products[i].id : i \in DOMAIN snapshot.products}
       THEN persisted[id]
       ELSE snapshot.products[
              CHOOSE i \in DOMAIN snapshot.products :
                /\ snapshot.products[i].id = id
                /\ \A j \in DOMAIN snapshot.products :
                     snapshot.products[j].id = id => i <= j].firstSeen]

\* no handler running, no alert sent yet
AtRest ==
    /\ clock = TickMs
    /\ kvLastAlert = NoTime
    /\ alertEmails = <<>>
    /\ run = [r \in Runs |-> IdleRun]
    /\ started = 0

\* the worker as deployed, with an empty KV namespace
Deployed ==
    /\ AtRest
    /\ kvInventory = Null
    /\ kvLastSuccess = NoTime
    /\ firstPersisted = [id \in ProductIds |-> NoTime]
    /\ notifiedAsNew = [id \in ProductIds |-> 0]

\* the worker after a first successful run, its notification sent
AfterFirstRun ==
    /\ AtRest
    /\ kvInventory = EarlierSnapshot
    /\ kvLastSuccess = TickMs
    /\ firstPersisted = FirstWritten([id \in ProductIds |-> NoTime], EarlierSnapshot)
    /\ notifiedAsNew =
         [id \in ProductIds |-> IF id \in IdsOf(EarlierSnapshot.products) THEN 1 ELSE Missed]

WorkerInit == sizeFilter \in BOOLEAN /\ (Deployed \/ AfterFirstRun)

\* the pure functions at rest
PureIdle ==
    /\ inStored = Null
    /\ inCurrent = <<>>
    /\ outChanges = NoChanges
    /\ outMerged = Null
    /\ phase = "off"

\* the scraper's pure steps at rest
ScraperIdle ==
    /\ sizeLabel = <<>>
    /\ filter = <<>>
    /\ matched = FALSE
    /\ pageData = [buildId |-> FALSE, products |-> <<>>]
    /\ sizeData = <<>>
    /\ filteredProducts = <<>>
    /\ priceMatches = <<>>
    /\ tilePrices = Null
    /\ scraperPhase = "off"

PureInit ==
    /\ sizeFilter = FALSE
    /\ Deployed
    /\ ScraperIdle
    /\ inStored \in StoredInputs
    /\ inCurrent \in SeqsUpTo(ScrapedProduct, MaxCurrent) \cup {ProductsOf(inStored)}
    /\ outChanges = NoChanges
    /\ outMerged = Null
    /\ phase = "input"

\* index.ts:58
DoCompare ==
    /\ phase = "input"
    /\ \E k \in 0..Len(inCurrent) :
         outChanges' = compareInventory(inStored, SplitResults(inCurrent, k))
    /\ phase' = "compared"
    /\ UNCHANGED <<inStored, inCurrent, outMerged, scraperVars, workerVars>>

\* index.ts:77
DoMerge ==
    /\ phase = "compared"
    /\ \E k \in 0..Len(inCurrent) :
         outMerged' = mergeInventory(inStored, SplitResults(inCurrent, k), 3 * TickMs)
    /\ phase' = "merged"
    /\ UNCHANGED <<inStored, inCurrent, outChanges, scraperVars, workerVars>>

PureNext == DoCompare \/ DoMerge

\* the pure functions on every input within the bounds
PureSpec == PureInit /\ [][PureNext]_vars

(***************************************************************************)
(* The site: the tiles each configured category can list, in page order.   *)
(* One category is configured (as in the README), listing product "a".     *)
(***************************************************************************)
Categories == <<"c1">>
CategoryTiles == [c1 |-> <<"a">>]

\* scraper.ts extractProducts: the products of the tiles a category page
\* shows (any of its tiles, in page order, each at some price), first seen at
\* the time of the scrape; an empty list also when extractProducts throws
\* (scraper.ts:239-241)
ExtractedProducts(category, now) ==
    LET tiles == CategoryTiles[category]
        Listing(S, priceOf) ==
            LET Keep(i) == i \in S
                idx == SelectSeq([i \in DOMAIN tiles |-> i], Keep)
            IN  [k \in DOMAIN idx |->
                   [id |-> tiles[idx[k]], price |-> priceOf[idx[k]], firstSeen |-> now]]
    IN  UNION {{Listing(S, priceOf) : priceOf \in [S -> Prices]} : S \in SUBSET DOMAIN tiles}

\* scraper.ts scrapeAllCategories: one result per category, in order; a later
\* category is scraped a moment after an earlier one
ScrapeOutcomes(now) ==
    LET Extracted(i) == ExtractedProducts(Categories[i], now + i - 1)
        lists == UNION {Extracted(i) : i \in DOMAIN Categories}
    IN  {[i \in DOMAIN Categories |-> [category |-> Categories[i], products |-> f[i]]] :
           f \in {g \in [DOMAIN Categories -> lists] :
                    \A i \in DOMAIN Categories : g[i] \in Extracted(i)}}

\* scrapeResults.reduce((sum, r) => sum + r.products.length, 0)
TotalProducts(scrapeResults) == Len(FlatProducts(scrapeResults))

(***************************************************************************)
(* index.ts: the handlers.  Every await is a step of its own.              *)
(***************************************************************************)
Step(r, changed) == run' = [run EXCEPT ![r] = changed]

\* an exception leaves runMonitor: the cron handler's catch calls
\* sendThrottledAlert (index.ts:93-96); the /trigger handler's catch answers
\* 500 with success: false (index.ts:111-114)
Thrown(r, local) ==
    IF r = "scheduled"
    THEN [local EXCEPT !.pc = "alert_get", !.alertReason = "unhandled", !.alert = "called"]
    ELSE [local EXCEPT !.pc = "done", !.result = "failure"]

\* sendThrottledAlert returns: runMonitor returns success: false after the
\* zero-product alert (index.ts:49); the cron handler's catch ends
AlertReturns(local) ==
    IF local.alertReason = "zero"
    THEN [local EXCEPT !.pc = "done", !.result = "failure"]
    ELSE [local EXCEPT !.pc = "done", !.result = "unhandled"]

\* the ids missing from the products of a scrape are marked
Scraped(results) ==
    [id \in ProductIds |->
       IF id \in IdsOf(FlatProducts(results)) THEN notifiedAsNew[id] ELSE Missed]

\* one more run has notified the new products of its diff
Notified(changes) ==
    [id \in ProductIds |->
       IF id \in IdsOf(changes.newProducts) /\ notifiedAsNew[id] \in {0, 1}
       THEN notifiedAsNew[id] + 1
       ELSE notifiedAsNew[id]]

\* a handler is invoked
Begin(r) ==
    /\ run[r].pc = "idle"
    /\ started < MaxRuns
    /\ started' = started + 1
    /\ Step(r, [IdleRun EXCEPT !.pc = "scrape", !.snapAtStart = kvInventory,
                               !.successAtStart = kvLastSuccess])
    /\ UNCHANGED <<pureVars, scraperVars, sizeFilter, clock, kvVars, alertEmails,
                   firstPersisted, notifiedAsNew>>

\* the cron trigger or a POST /trigger, while no other run is in progress
StartAlone(r) ==
    /\ \A o \in Runs : run[o].pc = "idle"
    /\ Begin(r)

\* the cron trigger or a POST /trigger, at any time
Start(r) == Begin(r)

\* Scrape with a fault: zero products are a failure with a size filter too
ScrapeIgnoresFilter(r) ==
    /\ run[r].pc = "scrape"
    /\ \E results \in ScrapeOutcomes(clock) :
         LET local == [run[r] EXCEPT !.scrapeResults = results]
         IN  /\ IF TotalProducts(results) = 0
                THEN Step(r, [local EXCEPT !.pc = "alert_get", !.alertReason = "zero",
                                           !.alert = "called"])
                ELSE Step(r, [local EXCEPT !.pc = "read"])
             /\ notifiedAsNew' = Scraped(results)
    /\ UNCHANGED <<pureVars, scraperVars, sizeFilter, clock, kvVars, alertEmails, started,
                   firstPersisted>>

\* index.ts:40-54: scrapeAllCategories returns
Scrape(r) ==
    /\ run[r].pc = "scrape"
    /\ \E results \in ScrapeOutcomes(clock) :
         LET local == [run[r] EXCEPT !.scrapeResults = results]
         IN  /\ IF TotalProducts(results) = 0 /\ ~sizeFilter
                THEN Step(r, [local EXCEPT !.pc = "alert_get", !.alertReason = "zero",
                                           !.alert = "called"])
                ELSE Step(r, [local EXCEPT !.pc = "read"])
             /\ notifiedAsNew' = Scraped(results)
    /\ UNCHANGED <<pureVars, scraperVars, sizeFilter, clock, kvVars, alertEmails, started,
                   firstPersisted>>

\* scraper.ts:224-226: puppeteer.launch or newPage throws
ScrapeThrows(r) ==
    /\ run[r].pc = "scrape"
    /\ Step(r, Thrown(r, run[r]))
    /\ notifiedAsNew' = Scraped(<<>>)
    /\ UNCHANGED <<pureVars, scraperVars, sizeFilter, clock, kvVars, alertEmails, started,
                   firstPersisted>>

\* Read with a fault: a failed read is taken for a missing snapshot
ReadSwallowsFailure(r) ==
    /\ run[r].pc = "read"
    /\ \/ LET changes == compareInventory(kvInventory, run[r].scrapeResults)
          IN  Step(r, [run[r] EXCEPT !.stored = kvInventory, !.changes = changes,
                                     !.didRead = TRUE,
                                     !.pc = IF hasChanges(changes) THEN "notify" ELSE "save"])
       \/ LET changes == compareInventory(Null, run[r].scrapeResults)
          IN  Step(r, [run[r] EXCEPT !.stored = Null, !.changes = changes,
                                     !.storeThrew = TRUE,
                                     !.pc = IF hasChanges(changes) THEN "notify" ELSE "save"])
    /\ UNCHANGED <<pureVars, scraperVars, sizeFilter, clock, kvVars, alertEmails, started,
                   firstPersisted, notifiedAsNew>>

\* index.ts:57-65: getStoredInventory, compareInventory, hasChanges
Read(r) ==
    /\ run[r].pc = "read"
    /\ \/ LET changes == compareInventory(kvInventory, run[r].scrapeResults)
          IN  Step(r, [run[r] EXCEPT !.stored = kvInventory, !.changes = changes,
                                     !.didRead = TRUE,
                                     !.pc = IF hasChanges(changes) THEN "notify" ELSE "save"])
       \/ Step(r, Thrown(r, [run[r] EXCEPT !.storeThrew = TRUE]))
    /\ UNCHANGED <<pureVars, scraperVars, sizeFilter, clock, kvVars, alertEmails, started,
                   firstPersisted, notifiedAsNew>>

\* Notify with a fault: the exception of sendNotification is not caught
NotifyUncaught(r) ==
    /\ run[r].pc = "notify"
    /\ \/ /\ Step(r, [run[r] EXCEPT !.notify = "sent", !.pc = "save"])
          /\ notifiedAsNew' = Notified(run[r].changes)
       \/ /\ Step(r, Thrown(r, [run[r] EXCEPT !.notify = "threw"]))
          /\ UNCHANGED notifiedAsNew
    /\ UNCHANGED <<pureVars, scraperVars, sizeFilter, clock, kvVars, alertEmails, started,
                   firstPersisted>>

\* index.ts:66-71, notifications.ts:149-170: sendNotification sends the email,
\* or throws and is caught
Notify(r) ==
    /\ run[r].pc = "notify"
    /\ \/ /\ Step(r, [run[r] EXCEPT !.notify = "sent", !.pc = "save"])
          /\ notifiedAsNew' = Notified(run[r].changes)
       \/ /\ Step(r, [run[r] EXCEPT !.notify = "threw", !.pc = "save"])
          /\ UNCHANGED notifiedAsNew
    /\ UNCHANGED <<pureVars, scraperVars, sizeFilter, clock, kvVars, alertEmails, started,
                   firstPersisted>>

\* index.ts:77-78: mergeInventory and saveInventory
Save(r) ==
    /\ run[r].pc = "save"
    /\ \/ /\ kvInventory' = mergeInventory(run[r].stored, run[r].scrapeResults, clock)
          /\ firstPersisted' = FirstWritten(firstPersisted, kvInventory')
          /\ Step(r, [run[r] EXCEPT !.didSave = TRUE, !.pc = "record"])
       \/ /\ UNCHANGED <<kvInventory, firstPersisted>>
          /\ Step(r, Thrown(r, [run[r] EXCEPT !.storeThrew = TRUE]))
    /\ UNCHANGED <<pureVars, scraperVars, sizeFilter, clock, kvLastAlert, kvLastSuccess,
                   alertEmails, started, notifiedAsNew>>

\* index.ts:31-33, 81-86: recordSuccess, and the run returns success: true
RecordSuccess(r) ==
    /\ run[r].pc = "record"
    /\ \/ /\ kvLastSuccess' = clock
          /\ Step(r, [run[r] EXCEPT !.didRecord = TRUE, !.pc = "done", !.result = "success"])
       \/ /\ UNCHANGED kvLastSuccess
          /\ Step(r, Thrown(r, [run[r] EXCEPT !.markerThrew = TRUE]))
    /\ UNCHANGED <<pureVars, scraperVars, sizeFilter, clock, kvInventory, kvLastAlert,
                   alertEmails, started, firstPersisted, notifiedAsNew>>

\* the alert is not due: one was recorded less than ALERT_THROTTLE_MS ago
Throttled(lastAlert, now) == lastAlert # NoTime /\ now - lastAlert < ALERT_THROTTLE_MS

\* index.ts:15-22: sendThrottledAlert reads the time of the last alert
AlertGet(r) ==
    /\ run[r].pc = "alert_get"
    /\ \/ IF Throttled(kvLastAlert, clock)
          THEN Step(r, AlertReturns([run[r] EXCEPT !.lastAlert = kvLastAlert,
                                                   !.alert = "throttled"]))
          ELSE Step(r, [run[r] EXCEPT !.lastAlert = kvLastAlert, !.pc = "alert_send"])
       \/ Step(r, AlertReturns([run[r] EXCEPT !.alert = "failed"]))
    /\ UNCHANGED <<pureVars, scraperVars, sizeFilter, clock, kvVars, alertEmails, started,
                   firstPersisted, notifiedAsNew>>

\* the last two entries of a sequence
LastTwo(seq) == IF Len(seq) <= 2 THEN seq ELSE SubSeq(seq, Len(seq) - 1, Len(seq))

\* index.ts:23, notifications.ts:113-147: sendAlertEmail; Resend accepts the
\* email, or answers with an error (logged), or fetch throws (caught by
\* sendThrottledAlert)
AlertSend(r) ==
    /\ run[r].pc = "alert_send"
    /\ \/ /\ alertEmails' = LastTwo(Append(alertEmails, clock))
          /\ Step(r, [run[r] EXCEPT !.alert = "sent", !.pc = "alert_put"])
       \/ /\ UNCHANGED alertEmails
          /\ Step(r, [run[r] EXCEPT !.alert = "rejected", !.pc = "alert_put"])
       \/ /\ UNCHANGED alertEmails
          /\ Step(r, AlertReturns([run[r] EXCEPT !.alert = "failed"]))
    /\ UNCHANGED <<pureVars, scraperVars, sizeFilter, clock, kvVars, started, firstPersisted, notifiedAsNew>>

\* index.ts:24-28: the time of the alert is recorded, or the put throws and
\* is caught
AlertPut(r) ==
    /\ run[r].pc = "alert_put"
    /\ \/ kvLastAlert' = clock
       \/ UNCHANGED kvLastAlert
    /\ Step(r, AlertReturns(run[r]))
    /\ UNCHANGED <<pureVars, scraperVars, sizeFilter, clock, kvInventory, kvLastSuccess,
                   alertEmails, started, firstPersisted, notifiedAsNew>>

\* the invocation ends
Finish(r) ==
    /\ run[r].pc = "done"
    /\ Step(r, IdleRun)
    /\ UNCHANGED <<pureVars, scraperVars, sizeFilter, clock, kvVars, alertEmails, started,
                   firstPersisted, notifiedAsNew>>

\* time passes; a run is short against a tick of the clock
Tick ==
    /\ \A r \in Runs : run[r].pc = "idle"
    /\ clock < (MaxTicks + 1) * TickMs
    /\ clock' = clock + TickMs
    /\ UNCHANGED <<pureVars, scraperVars, sizeFilter, kvVars, alertEmails, run, started,
                   firstPersisted, notifiedAsNew>>

RunStep(r) ==
    \/ Scrape(r) \/ ScrapeThrows(r) \/ Read(r) \/ Notify(r) \/ Save(r)
    \/ RecordSuccess(r) \/ AlertGet(r) \/ AlertSend(r) \/ AlertPut(r) \/ Finish(r)

Next == Tick \/ \E r \in Runs : StartAlone(r) \/ RunStep(r)

Init == WorkerInit /\ PureIdle /\ ScraperIdle

\* the worker with one run at a time
Spec == Init /\ [][Next]_vars

ConcNext == Tick \/ \E r \in Runs : Start(r) \/ RunStep(r)

\* the worker with a cron run and a /trigger run that may overlap
ConcSpec == Init /\ [][ConcNext]_vars

(***************************************************************************)
(* The scraper's pure steps on every input within the bounds.              *)
(***************************************************************************)
\* the size labels a product page can carry
Labels == SeqsUpTo(Chars, MaxLabelLen)

\* the values env.SIZE_FILTER is set to: L, l, LR, L-R, "l r", M, R, "-"
Filters ==
    { <<"L">>, <<"l">>, <<"L", "R">>, <<"L", "-", "R">>, <<"l", " ", "r">>,
      <<"M">>, <<"R">>, <<"-">> }

\* the size labels of the products of the page: L-R, M-R, "l r"
StockLabels == { <<"L", "-", "R">>, <<"M", "-", "R">>, <<"l", " ", "r">> }

\* scraper.ts:46-56: the in-stock labels of a product, each once
InStockSizes ==
    {sizes \in SeqsUpTo(StockLabels, MaxSizes) :
       \A i, j \in DOMAIN sizes : sizes[i] = sizes[j] => i = j}

\* what getProductSizeData returns: null, or the sizes in stock
SizeLookups == {Null} \cup {[sizes |-> sizes] : sizes \in InStockSizes}

\* scraper.ts:152-165: the products of the tiles of the page, sizes not yet
\* looked up
PageProducts == <<[id |-> "a", sizes |-> <<>>], [id |-> "b", sizes |-> <<>>]>>

\* the values of the price strings a tile can show
PriceValues == {0, 1, 7, 8, 200}

ScraperInit ==
    /\ sizeFilter = FALSE
    /\ Deployed
    /\ PureIdle
    /\ \/ /\ scraperPhase = "label"
          /\ sizeLabel \in Labels
          /\ filter \in Filters
          /\ pageData = [buildId |-> FALSE, products |-> <<>>]
          /\ sizeData = <<>>
          /\ priceMatches = <<>>
       \/ /\ scraperPhase = "page"
          /\ sizeLabel = <<>>
          /\ filter \in Filters \cup {<<>>}
          /\ \/ /\ pageData = [buildId |-> TRUE, products |-> PageProducts]
                /\ sizeData \in [DOMAIN PageProducts -> SizeLookups]
             \/ /\ pageData = [buildId |-> FALSE, products |-> PageProducts]
                /\ sizeData = <<>>
          /\ priceMatches = <<>>
       \/ /\ scraperPhase = "tile"
          /\ sizeLabel = <<>>
          /\ filter = <<>>
          /\ pageData = [buildId |-> FALSE, products |-> <<>>]
          /\ sizeData = <<>>
          /\ priceMatches \in SeqsUpTo(PriceValues, MaxPrices)
    /\ matched = FALSE
    /\ filteredProducts = <<>>
    /\ tilePrices = Null

\* scraper.ts:200: sizeMatches(s, sizeFilter)
DoSizeMatches ==
    /\ scraperPhase = "label"
    /\ matched' = sizeMatches(sizeLabel, filter)
    /\ scraperPhase' = "matched"
    /\ UNCHANGED <<sizeLabel, filter, pageData, sizeData, filteredProducts,
                   priceMatches, tilePrices, pureVars, workerVars>>

\* scraper.ts:171-210
DoExtract ==
    /\ scraperPhase = "page"
    /\ filteredProducts' = extractProducts(pageData, sizeData, filter)
    /\ scraperPhase' = "extracted"
    /\ UNCHANGED <<sizeLabel, filter, matched, pageData, sizeData,
                   priceMatches, tilePrices, pureVars, workerVars>>

\* scraper.ts:144-157
DoPrices ==
    /\ scraperPhase = "tile"
    /\ tilePrices' = PriceFields(priceMatches)
    /\ scraperPhase' = "priced"
    /\ UNCHANGED <<sizeLabel, filter, matched, pageData, sizeData, filteredProducts,
                   priceMatches, pureVars, workerVars>>

ScraperNext == DoSizeMatches \/ DoExtract \/ DoPrices

ScraperSpec == ScraperInit /\ [][ScraperNext]_vars

(***************************************************************************)
(* The diff and the merge, as the claims state them.                       *)
(***************************************************************************)
\* the stored product an id stands for: the last one carrying it
LastWithId(products, id) ==
    products[CHOOSE i \in DOMAIN products :
                /\ products[i].id = id
                /\ \A j \in DOMAIN products : j > i => products[j].id # id]

\* no two products of the list share an id and differ otherwise
DuplicatesAgree(products) ==
    \A i, j \in DOMAIN products : products[i].id = products[j].id => products[i] = products[j]

UniqueIds(products) ==
    \A i, j \in DOMAIN products : products[i].id = products[j].id => i = j

\* seq rearranged by the permutation f of its indices
Permuted(seq, f) == [i \in DOMAIN seq |-> seq[f[i]]]

PermutedStored(stored, f) ==
    IF stored = Null THEN Null
    ELSE [stored EXCEPT !.products = Permuted(stored.products, f)]

\* C1: compareInventory returns as newProducts exactly the current products
\* whose id is not stored, as priceDrops exactly the current products whose
\* id is stored at a strictly higher price, each with that stored price as
\* previousPrice, and as removedProducts exactly the stored products whose id
\* is not current; without a snapshot every current product is new and none
\* is removed; no id is in two of the three collections.
C1_DiffClassifies ==
    phase # "input" =>
      LET storedProducts == ProductsOf(inStored)
          IsNew(p) == p.id \notin IdsOf(storedProducts)
          IsDrop(p) == /\ p.id \in IdsOf(storedProducts)
                       /\ p.price < LastWithId(storedProducts, p.id).price
          IsRemoved(p) == p.id \notin IdsOf(inCurrent)
          drops == SelectSeq(inCurrent, IsDrop)
          dropIds == {outChanges.priceDrops[i].product.id : i \in DOMAIN outChanges.priceDrops}
      IN  /\ outChanges.newProducts = SelectSeq(inCurrent, IsNew)
          /\ outChanges.priceDrops =
               [i \in 1..Len(drops) |->
                  [product |-> drops[i],
                   previousPrice |-> LastWithId(storedProducts, drops[i].id).price]]
          /\ outChanges.removedProducts = SelectSeq(storedProducts, IsRemoved)
          /\ inStored = Null =>
               outChanges.newProducts = inCurrent /\ outChanges.removedProducts = <<>>
          /\ IdsOf(outChanges.newProducts) \cap dropIds = {}
          /\ IdsOf(outChanges.newProducts) \cap IdsOf(outChanges.removedProducts) = {}
          /\ dropIds \cap IdsOf(outChanges.removedProducts) = {}

\* C1 witness: a diff against a snapshot that found a new product and a
\* price drop
C1_Witness ==
    /\ phase = "compared"
    /\ inStored # Null
    /\ Len(outChanges.newProducts) = 1
    /\ Len(outChanges.priceDrops) = 1
    /\ outChanges.removedProducts = <<>>

\* C2 as stated: the diff of any snapshot against its own products is empty.
C2_Original ==
    (phase # "input" /\ inStored # Null /\ inCurrent = inStored.products)
      => outChanges = NoChanges

\* C2 amended: the diff of a snapshot against its own products has no new and
\* no removed product, and has no price drop when the ids of the snapshot are
\* distinct; otherwise its price drops are exactly the entries priced below
\* the last entry with their id.
C2_SelfDiff ==
    (phase # "input" /\ inStored # Null /\ inCurrent = inStored.products)
      => /\ outChanges.newProducts = <<>>
         /\ outChanges.removedProducts = <<>>
         /\ UniqueIds(inStored.products) => outChanges.priceDrops = <<>>
         /\ {outChanges.priceDrops[i].product : i \in DOMAIN outChanges.priceDrops}
              = {p \in ToSet(inStored.products) :
                   p.price < LastWithId(inStored.products, p.id).price}

\* C2 witness: a snapshot of two distinct ids diffed against itself
C2_Witness ==
    /\ phase = "compared"
    /\ inStored # Null
    /\ inCurrent = inStored.products
    /\ Len(inCurrent) = 2
    /\ UniqueIds(inCurrent)

OrderIndependent ==
    \A f \in Permutations(DOMAIN ProductsOf(inStored)) :
      \A g \in Permutations(DOMAIN inCurrent) :
        LET stored == PermutedStored(inStored, f)
            results == SplitResults(Permuted(inCurrent, g), 0)
            changes == compareInventory(stored, results)
            merged == mergeInventory(stored, results, outMerged.lastUpdated)
        IN  /\ ToSet(changes.newProducts) = ToSet(outChanges.newProducts)
            /\ ToSet(changes.priceDrops) = ToSet(outChanges.priceDrops)
            /\ ToSet(changes.removedProducts) = ToSet(outChanges.removedProducts)
            /\ ToSet(merged.products) = ToSet(outMerged.products)

\* C5 as stated: permuting the stored snapshot and the scraped list leaves
\* the sets of new, dropped, removed and merged products unchanged (stated
\* here for the snapshots whose products all carry a firstSeen).
C5_Original ==
    (phase = "merged" /\ \A p \in ToSet(ProductsOf(inStored)) : p.firstSeen # NoTime)
      => OrderIndependent

\* C5 amended: the same, for a stored snapshot in which no two products share
\* an id and differ in price or firstSeen.
C5_OrderIndependence ==
    (phase = "merged" /\ DuplicatesAgree(ProductsOf(inStored))) => OrderIndependent

\* C5 witness: two stored and two scraped products, diffed and merged
C5_Witness ==
    /\ phase = "merged"
    /\ inStored # Null
    /\ Len(inStored.products) = 2
    /\ UniqueIds(inStored.products)
    /\ Len(inCurrent) = 2
    /\ inCurrent[1] # inCurrent[2]
    /\ Len(outChanges.priceDrops) = 1

(***************************************************************************)
(* The monitor runs, as the claims state them.                             *)
(***************************************************************************)
\* run r has scraped, and the scrape found no product
ScrapedNothing(r) ==
    run[r].scrapeResults # <<>> /\ TotalProducts(run[r].scrapeResults) = 0

\* a KV operation of run r on the snapshot or on the success marker threw
KvThrew(r) == run[r].storeThrew \/ run[r].markerThrew

\* C4 as stated: once an id was persisted with a firstSeen, every snapshot
\* persisted later that holds the id holds it with that firstSeen.
C4_Original ==
    kvInventory # Null =>
      \A p \in ToSet(kvInventory.products) : p.firstSeen = firstPersisted[p.id]

\* C4 amended: each write of the snapshot by a run gives every id the
\* replaced snapshot holds the firstSeen the replaced snapshot holds for it; an
\* id keeps its firstSeen for as long as every persisted snapshot holds it.
C4_FirstSeenCarried ==
    [][(kvInventory' # kvInventory /\ kvInventory # Null) =>
         \A p \in ToSet(kvInventory'.products) :
           p.id \in IdsOf(kvInventory.products) =>
             p.firstSeen = LastWithId(kvInventory.products, p.id).firstSeen]_vars

\* C4 witness: a run has persisted a product it scraped now with the
\* firstSeen of an earlier run
C4_Witness ==
    \E r \in Runs :
      /\ run[r].didSave
      /\ run[r].stored # Null
      /\ \E p \in ToSet(kvInventory.products) :
           /\ p.firstSeen < clock
           /\ p.id \in IdsOf(run[r].stored.products)
           /\ \E q \in ToSet(FlatProducts(run[r].scrapeResults)) :
                q.id = p.id /\ q.firstSeen = clock

\* C6: hasChanges is true exactly when there is a new product or a price
\* drop; a run calls sendNotification only if hasChanges of its diff is true,
\* and a run that found only removed products never calls it.
C6_NotificationGated ==
    \A r \in Runs :
      LET changes == run[r].changes
          significant == changes.newProducts # <<>> \/ changes.priceDrops # <<>>
      IN  /\ hasChanges(changes) <=> significant
          /\ run[r].notify # "none" => run[r].didRead /\ significant
          /\ (run[r].didRead /\ ~significant) =>
               run[r].notify = "none" /\ run[r].pc \notin {"notify"}

\* C6 witness: a run that found only a removed product has ended with
\* success, without a notification
C6_Witness ==
    \E r \in Runs :
      /\ run[r].pc = "done"
      /\ run[r].result = "success"
      /\ run[r].changes.removedProducts # <<>>
      /\ run[r].changes.newProducts = <<>>
      /\ run[r].changes.priceDrops = <<>>
      /\ run[r].notify = "none"

\* C7: a run whose sendNotification threw, and whose KV writes succeed, ends
\* with the merged snapshot written, the successful scrape recorded and
\* success: true.
C7_NotifyFailureDoesNotBlock ==
    \A r \in Runs :
      (run[r].pc = "done" /\ run[r].notify = "threw" /\ ~KvThrew(r)) =>
        /\ run[r].result = "success"
        /\ run[r].didSave
        /\ kvInventory = mergeInventory(run[r].stored, run[r].scrapeResults, clock)
        /\ run[r].didRecord
        /\ kvLastSuccess = clock

\* C7 witness: a run whose notification threw has ended with a price drop
\* persisted
C7_Witness ==
    \E r \in Runs :
      /\ run[r].pc = "done"
      /\ run[r].notify = "threw"
      /\ run[r].result = "success"
      /\ run[r].changes.priceDrops # <<>>
      /\ kvInventory # run[r].snapAtStart

\* C8: a run whose read or write of the snapshot threw never returns
\* success: true, leaves the stored snapshot as it was when the run started,
\* and does not update the last-successful-scrape marker.
C8_StoreFailureFatal ==
    \A r \in Runs :
      run[r].storeThrew =>
        /\ run[r].result # "success"
        /\ run[r].pc # "record"
        /\ kvInventory = run[r].snapAtStart
        /\ kvLastSuccess = run[r].successAtStart
        /\ ~run[r].didSave
        /\ ~run[r].didRecord

\* C8 witness: a run whose saveInventory threw, after a diff with changes,
\* has ended as a failed run
C8_Witness ==
    \E r \in Runs :
      /\ run[r].pc = "done"
      /\ run[r].storeThrew
      /\ run[r].didRead
      /\ hasChanges(run[r].changes)
      /\ run[r].result = "failure"

\* C9: a run that scraped zero products with no size filter calls the alert
\* sink and reports failure, without reading or writing the snapshot, sending
\* a notification or recording success; with a size filter the same run is
\* no zero-product failure: it goes on to the diff and the merge and, its KV
\* operations succeeding, reports success.
C9_ZeroProductRule ==
    \A r \in Runs :
      ScrapedNothing(r) =>
        IF ~sizeFilter
        THEN /\ run[r].alertReason = "zero"
             /\ run[r].alert # "none"
             /\ run[r].pc \in {"alert_get", "alert_send", "alert_put", "done"}
             /\ run[r].pc = "done" => run[r].result = "failure"
             /\ ~run[r].didRead /\ ~run[r].didSave /\ ~run[r].didRecord
             /\ run[r].notify = "none"
             /\ ~KvThrew(r)
        ELSE /\ run[r].alertReason # "zero"
             /\ (run[r].alert # "none") => KvThrew(r)
             /\ (run[r].pc = "done" /\ ~KvThrew(r)) =>
                  /\ run[r].result = "success"
                  /\ run[r].didRead /\ run[r].didSave /\ run[r].didRecord
                  /\ kvInventory =
                       mergeInventory(run[r].stored, run[r].scrapeResults, clock)

\* C9 witness (no size filter): a zero-product run has ended in failure
\* after its alert email was sent
C9_Witness ==
    \E r \in Runs :
      /\ ~sizeFilter
      /\ ScrapedNothing(r)
      /\ run[r].pc = "done"
      /\ run[r].alert = "sent"

\* a zero-product run with a size filter has ended with success, the empty
\* snapshot written
C9_FilterWitness ==
    \E r \in Runs :
      /\ sizeFilter
      /\ ScrapedNothing(r)
      /\ run[r].pc = "done"
      /\ run[r].result = "success"
      /\ kvInventory # Null
      /\ kvInventory.products = <<>>

\* C10 as stated: any two alert emails sent are at least ALERT_THROTTLE_MS
\* apart.
C10_AlertsThrottled ==
    Len(alertEmails) = 2 => alertEmails[2] - alertEmails[1] >= ALERT_THROTTLE_MS

\* run r has ended as a failed run: runMonitor returned success: false, or
\* an exception left it
FailedRun(r) == run[r].pc = "done" /\ run[r].result \in {"failure", "unhandled"}

\* C11 as stated: every run that found zero products with no size filter, and
\* every run an exception left, has called sendThrottledAlert, be it the cron
\* run or the POST /trigger run.
C11_AlertOnEveryFailedRun ==
    \A r \in Runs :
      /\ (ScrapedNothing(r) /\ ~sizeFilter) => run[r].alert # "none"
      /\ FailedRun(r) => run[r].alert # "none"

\* run r has read the snapshot and has not yet written the next one
InCycle(r) == run[r].didRead /\ ~run[r].didSave /\ run[r].pc \in {"notify", "save"}

\* C12 as stated: between a run's getStoredInventory and its saveInventory
\* no other run writes the snapshot key: the snapshot in the store is the one
\* the run read, diffed and will merge against, however a cron run and a
\* POST /trigger run interleave.
C12_SingleWriter ==
    \A r \in Runs : InCycle(r) => kvInventory = run[r].stored

(***************************************************************************)
(* The scraper's pure steps, as the claims state them.                     *)
(***************************************************************************)
\* a string uppercased, its hyphens and spaces removed
RECURSIVE Stripped(_)
Stripped(str) ==
    IF str = <<>> THEN <<>>
    ELSE IF Head(str) = "-" \/ Head(str) = " " THEN Stripped(Tail(str))
    ELSE <<UpperChar(Head(str))>> \o Stripped(Tail(str))

\* the label, stripped, equals the stripped filter or begins with it
LabelMatches(label, wanted) ==
    LET stripped == Stripped(label)
    IN  \E k \in 0..Len(stripped) : SubSeq(stripped, 1, k) = Stripped(wanted)

\* the sizes in stock of the i-th product of the page: empty when the stock
\* is unknown
StockOf(i) ==
    IF ~pageData.buildId \/ sizeData[i] = Null THEN <<>> ELSE sizeData[i].sizes

\* C13: sizeMatches(label, filter) is true iff the label, uppercased with
\* hyphens and spaces removed, equals or starts with the filter normalized
\* the same way: ("L-R", "L"), ("LR", "L-R") and ("l r", "LR") match and
\* ("M-R", "L") does not; with a size filter extractProducts keeps a product
\* iff its in-stock sizes are empty or one of them matches, and without a
\* filter it keeps every product.
C13_SizeFiltering ==
    /\ scraperPhase = "matched" =>
         /\ matched <=> LabelMatches(sizeLabel, filter)
         /\ (sizeLabel = <<"L", "-", "R">> /\ filter = <<"L">>) => matched
         /\ (sizeLabel = <<"L", "R">> /\ filter = <<"L", "-", "R">>) => matched
         /\ (sizeLabel = <<"l", " ", "r">> /\ filter = <<"L", "R">>) => matched
         /\ (sizeLabel = <<"M", "-", "R">> /\ filter = <<"L">>) => ~matched
    /\ scraperPhase = "extracted" =>
         LET kept == IF filter = <<>> THEN DOMAIN pageData.products
                     ELSE {i \in DOMAIN pageData.products :
                             \/ StockOf(i) = <<>>
                             \/ \E k \in DOMAIN StockOf(i) :
                                  LabelMatches(StockOf(i)[k], filter)}
         IN  /\ Len(filteredProducts) = Cardinality(kept)
             /\ ToSet(filteredProducts) =
                  {[id |-> pageData.products[i].id, sizes |-> StockOf(i)] : i \in kept}

\* C13 witness: with the filter LR, the product in stock in M-R only was
\* dropped and the product in stock in "l r" was kept
C13_Witness ==
    /\ scraperPhase = "extracted"
    /\ filter = <<"L", "R">>
    /\ pageData.buildId
    /\ sizeData[1] = [sizes |-> << <<"M", "-", "R">> >>]
    /\ sizeData[2] # Null
    /\ filteredProducts = <<[id |-> "b", sizes |-> sizeData[2].sizes]>>
    /\ \E k \in DOMAIN sizeData[2].sizes : sizeData[2].sizes[k] = <<"l", " ", "r">>

\* the highest value of a non-empty set of numbers
Highest(S) == CHOOSE v \in S : \A w \in S : w <= v

\* the second-highest of the values: the highest of the others, one of the
\* highest set aside; the only value when there is one
SecondHighest(values) ==
    LET top == CHOOSE i \in DOMAIN values : \A j \in DOMAIN values : values[j] <= values[i]
        others == {values[j] : j \in DOMAIN values \ {top}}
    IN  IF others = {} THEN values[top] ELSE Highest(others)

\* d is (originalPrice - price) / originalPrice * 100 rounded to the nearest
\* integer, a half rounded up
IsRoundedDiscount(d, originalPrice, price) ==
    /\ 2 * originalPrice * d <= 200 * (originalPrice - price) + originalPrice
    /\ 200 * (originalPrice - price) + originalPrice < 2 * originalPrice * (d + 1)

\* C14 as stated: of the non-negative values parsed from a tile,
\* originalPrice is the highest and price the second-highest (the same value
\* when only one was found), so price <= originalPrice; discount is
\* round((originalPrice - price) / originalPrice * 100) when
\* originalPrice > price and 0 otherwise, an integer in 0..100.
C14_PriceFields ==
    scraperPhase = "priced" =>
      /\ priceMatches # <<>> =>
           /\ tilePrices.originalPrice = Highest(ToSet(priceMatches))
           /\ tilePrices.price = SecondHighest(priceMatches)
      /\ tilePrices.price <= tilePrices.originalPrice
      /\ IF tilePrices.originalPrice > tilePrices.price
         THEN IsRoundedDiscount(tilePrices.discount, tilePrices.originalPrice,
                                tilePrices.price)
         ELSE tilePrices.discount = 0
      /\ tilePrices.discount \in 0..100

\* C15 as stated: over runs that do not overlap, an id that every run so
\* far has scraped was listed as new in the accepted notification of at most
\* one run.
C15_NotifiedOnce ==
    \A id \in ProductIds : notifiedAsNew[id] # Missed => notifiedAsNew[id] <= 1

=============================================================================
